---- MODULE Spec2Model ----
(***************************************************************************)
(* Model of scripts/cluster_network.py: the cluster-count allocation       *)
(* (distribute_clusters), the node weighting (weighting_for_country), the  *)
(* per-group busmap construction (busmap_for_n_clusters) and its caller    *)
(* (clustering_for_n_clusters).                                            *)
(*                                                                         *)
(* Fractions are kept exact: a pandas Series of floats is a record         *)
(* [num |-> function of integer numerators, den |-> common denominator].   *)
(***************************************************************************)
EXTENDS Integers, Sequences, FiniteSets, TLC

VARIABLES
    pc,                 \* control point of the running call
    buses,              \* n.buses.index (bus ids)
    country,            \* n.buses.country
    sub_network,        \* n.buses.sub_network
    load,               \* per bus: <<>> (no load attached) or <<mean p_set>>
    p_nom,              \* per bus: summed p_nom of conventional generators/storage
    n_clusters,         \* requested total number of clusters
    focus_weights,      \* [given |-> BOOLEAN, w |-> country -> weight in halves]
    quadratic,          \* opt.has_capability('quadratic_objective')
    alloc,              \* outcome of distribute_clusters
    algorithm,          \* the `algorithm` argument
    custom_busmap,      \* the `custom_busmap` argument
    custom_file,        \* rows of snakemake.input.custom_busmap
    community_imported, \* whether the name `community` is bound in the module
    todo,               \* groups groupby(...).apply has still to visit
    busmap,             \* rows (bus, label) of the busmap built so far
    invoked,            \* <<callee, group>> for every weighting/strategy call made
    error,              \* name and text of the exception raised, if any
    weight,             \* outcome of weighting_for_country
    lv                  \* busmap_by_louvain: repeat, c, b, bu, calls of the last step,
                        \* and what best_partition has returned so far in the call

inputs == <<buses, country, sub_network, load, p_nom, n_clusters, focus_weights,
            quadratic, algorithm, custom_busmap, custom_file, community_imported>>

vars == <<pc, inputs, alloc, todo, busmap, invoked, error, weight, lv>>

----------------------------------------------------------------------------
(* Bounds of the model *)

MaxBuses == 4

\* (country, sub_network) pairs a bus may carry, in groupby's sort order.
\* Sub-networks are numbered from "0" by determine_network_topology.
GroupKeys == << <<"A", "0">>, <<"A", "1">>, <<"B", "0">> >>

\* loads attached to a bus: none, or one with mean 0 or 1
LoadChoices == { <<>>, <<0>>, <<1>> }

\* focus weights are multiples of 1/2
FocusValues == {0, 1, 2}

----------------------------------------------------------------------------
(* Arithmetic helpers *)

RECURSIVE SumOver(_, _)
SumOver(f, S) ==
    IF S = {} THEN 0
    ELSE LET e == CHOOSE e \in S : TRUE IN f[e] + SumOver(f, S \ {e})

Sum(f) == SumOver(f, DOMAIN f)

RECURSIVE Factorial(_)
Factorial(k) == IF k <= 1 THEN 1 ELSE k * Factorial(k - 1)

Abs(i) == IF i < 0 THEN -i ELSE i

\* normed(x) = (x / x.sum()).fillna(0.)   -- 0/0 is NaN and becomes 0
normed(x) ==
    LET s == Sum(x) IN
    IF s = 0 THEN [num |-> [i \in DOMAIN x |-> 0], den |-> 1]
    ELSE [num |-> x, den |-> s]

\* np.isclose(L.sum(), 1.0, rtol=1e-3): |sum - 1| <= 1e-8 + 1e-3; for a
\* denominator below 10^5 this is |num - den| * 1000 <= den.
IsCloseToOne(num, den) == Abs(num - den) * 1000 <= den

----------------------------------------------------------------------------
(* The network: groups of buses and their loads *)

Key(b) == <<country[b], sub_network[b]>>

\* n.buses.groupby(['country', 'sub_network'])
Groups == { Key(b) : b \in buses }

GroupBuses(g) == { b \in buses : Key(b) = g }

\* N = n.buses.groupby(['country', 'sub_network']).size()
N(g) == Cardinality(GroupBuses(g))

\* n.loads_t.p_set.mean().groupby(n.loads.bus).sum(): only buses with a load
Loaded == { b \in buses : load[b] # <<>> }

LoadAt(b) == IF load[b] = <<>> THEN 0 ELSE load[b][1]

\* index of L: the groups that hold at least one loaded bus
LIndex == { Key(b) : b \in Loaded }

GroupLoad(g) == SumOver([b \in buses |-> LoadAt(b)], GroupBuses(g) \cap Loaded)

\* L before any focus weights
LoadShare == normed([g \in LIndex |-> GroupLoad(g)])

----------------------------------------------------------------------------
(* distribute_clusters *)

\* the first assertion without its upper bound
ClusterCountOK_NoUpper == n_clusters >= Cardinality(Groups)

\* assert n_clusters >= len(N) and n_clusters <= N.sum()
ClusterCountOK ==
    n_clusters >= Cardinality(Groups) /\ n_clusters <= Cardinality(buses)

total_focus == Sum(focus_weights.w)

\* assert total_focus <= 1.0   (weights are in halves)
FocusSumOK == total_focus <= 2

CountryGroups(c) == { g \in LIndex : g[1] = c }

\* L[country] raises KeyError when no group of L belongs to the country
FocusKeysPresent == \A c \in DOMAIN focus_weights.w : CountryGroups(c) # {}

\* remainder = [c not in focus_weights.keys() for c in L.index...country]
remainder == { g \in LIndex : g[1] \notin DOMAIN focus_weights.w }

RemainderLoad == SumOver([g \in LIndex |-> GroupLoad(g)], remainder)

\* the remainder normalised but not rescaled to 1 - total_focus
FocusAdjusted_NoRescale ==
    LET F == Factorial(Cardinality(LIndex))
        R == IF RemainderLoad = 0 THEN 1 ELSE RemainderLoad
    IN  [num |-> [g \in LIndex |->
                    IF g \in remainder
                    THEN (IF RemainderLoad = 0 THEN 0 ELSE GroupLoad(g)) * 2 * F
                    ELSE focus_weights.w[g[1]]
                         * (F \div Cardinality(CountryGroups(g[1]))) * R],
         den |-> 2 * F * R]

\* L after the focus override and the rescaling of the remainder:
\*   L[country] = weight / len(L[country])
\*   L[remainder] = L.loc[remainder].pipe(normed) * (1 - total_focus)
FocusAdjusted ==
    LET F == Factorial(Cardinality(LIndex))
        R == IF RemainderLoad = 0 THEN 1 ELSE RemainderLoad
    IN  [num |-> [g \in LIndex |->
                    IF g \in remainder
                    THEN (IF RemainderLoad = 0 THEN 0 ELSE GroupLoad(g))
                         * (2 - total_focus) * F
                    ELSE focus_weights.w[g[1]]
                         * (F \div Cardinality(CountryGroups(g[1]))) * R],
         den |-> 2 * F * R]

\* integer points of the program: bounds (1, N[g]), summation == n_clusters
IntegerFeasible(K) ==
    { x \in [LIndex -> 1..Cardinality(buses)] :
        /\ \A g \in LIndex : x[g] <= N(g)
        /\ Sum(x) = K }

\* objective, scaled by den^2: sum((n[i] - L[i]*n_clusters)**2)
Objective(x, L, K) ==
    Sum([g \in LIndex |-> (x[g] * L.den - L.num[g] * K) * (x[g] * L.den - L.num[g] * K)])

\* what a solver with a quadratic (mixed-integer) capability may return
MIQPSolutions(L, K) ==
    { x \in IntegerFeasible(K) :
        \A y \in IntegerFeasible(K) : Objective(x, L, K) <= Objective(y, L, K) }

\* ipopt treats the integer variables as continuous: the optimum of the
\* relaxed program, found by enumerating the active sets.  Values are scaled
\* by S = L.den * |L|! so that they stay integers.
RelaxScale(L) == L.den * Factorial(Cardinality(LIndex))

RelaxCandidate(a, L, K) ==
    LET M     == Factorial(Cardinality(LIndex))
        S     == RelaxScale(L)
        free  == { g \in LIndex : a[g] = "free" }
        fixed == SumOver([g \in LIndex |-> IF a[g] = "lo" THEN 1 ELSE N(g)], LIndex \ free)
        tS    == [g \in LIndex |-> L.num[g] * K * M]
        lamS  == IF free = {} THEN 0
                 ELSE ((K - fixed) * S - SumOver(tS, free)) \div Cardinality(free)
    IN  [g \in LIndex |->
            IF a[g] = "lo" THEN S
            ELSE IF a[g] = "hi" THEN N(g) * S
            ELSE tS[g] + lamS]

RelaxFeasible(x, L, K) ==
    /\ \A g \in LIndex : RelaxScale(L) <= x[g] /\ x[g] <= N(g) * RelaxScale(L)
    /\ Sum(x) = K * RelaxScale(L)

RelaxObjective(x, L, K) ==
    LET M == Factorial(Cardinality(LIndex)) IN
    Sum([g \in LIndex |-> (x[g] - L.num[g] * K * M) * (x[g] - L.num[g] * K * M)])

RelaxedSolutions(L, K) ==
    LET C == { x \in { RelaxCandidate(a, L, K) : a \in [LIndex -> {"lo", "hi", "free"}] } :
                 RelaxFeasible(x, L, K) }
    IN  { x \in C : \A y \in C : RelaxObjective(x, L, K) <= RelaxObjective(y, L, K) }

\* pd.Series(m.n.get_values(), index=L.index).astype(int): truncation
AsInt(x, scale) == [g \in DOMAIN x |-> x[g] \div scale]

NoBudget == [g \in {} |-> 0]

Raised(kind, line, L, built, solver) ==
    [status |-> kind, line |-> line, L |-> L, model_built |-> built,
     solver |-> solver, budget |-> NoBudget]

\* every outcome of distribute_clusters(n, n_clusters, focus_weights, solver_name)
distribute_clusters ==
    IF ~ClusterCountOK
    THEN { Raised("AssertionError", 193, LoadShare, FALSE, "none") }
    ELSE IF focus_weights.given /\ ~FocusSumOK
    THEN { Raised("AssertionError", 200, LoadShare, FALSE, "none") }
    ELSE IF focus_weights.given /\ ~FocusKeysPresent
    THEN { Raised("KeyError", 203, LoadShare, FALSE, "none") }
    ELSE
      LET L == IF focus_weights.given THEN FocusAdjusted ELSE LoadShare
          solver == IF quadratic THEN "configured" ELSE "ipopt"
      IN
      IF ~IsCloseToOne(Sum(L.num), L.den)
      THEN { Raised("AssertionError", 210, L, FALSE, "none") }
      ELSE IF IntegerFeasible(n_clusters) = {}
      THEN { Raised("AssertionError", 226, L, TRUE, solver) }
      ELSE
        { [status |-> "ok", line |-> 228, L |-> L, model_built |-> TRUE,
           solver |-> solver, budget |-> b] :
          b \in IF quadratic
                THEN { AsInt(x, 1) : x \in MIQPSolutions(L, n_clusters) }
                ELSE { AsInt(x, RelaxScale(L)) : x \in RelaxedSolutions(L, n_clusters) } }

----------------------------------------------------------------------------
(* Input networks *)

BusKinds(loads, caps) == [key : 1..Len(GroupKeys), load : loads, p_nom : caps]

LoadRank(l) == IF l = <<>> THEN 0 ELSE 1 + l[1]

KindRank(k) == (k.key * 16 + LoadRank(k.load)) * 16 + k.p_nom

\* bus tables of 1..MaxBuses rows; buses that differ only in their id are
\* listed once (rows ordered by kind)
BusTables(loads, caps) ==
    UNION { { t \in [1..k -> BusKinds(loads, caps)] :
                \A i \in 1..(k - 1) : KindRank(t[i]) <= KindRank(t[i + 1]) } :
            k \in 1..MaxBuses }

\* determine_network_topology numbers the sub-networks from "0"
TopologyOK(t) ==
    \A i \in DOMAIN t :
        GroupKeys[t[i].key][2] = "1" => \E j \in DOMAIN t : GroupKeys[t[j].key][2] = "0"

Countries == { GroupKeys[i][1] : i \in 1..Len(GroupKeys) }

NoFocus == [given |-> FALSE, w |-> [c \in {} |-> 0]]

FocusChoices ==
    {NoFocus} \cup
    { [given |-> TRUE, w |-> f] :
        f \in UNION { [C -> FocusValues] : C \in (SUBSET Countries) \ {{}} } }

NotCalled ==
    [status |-> "none", line |-> 0, L |-> normed(NoBudget), model_built |-> FALSE,
     solver |-> "none", budget |-> NoBudget]

NoError == [type |-> "", text |-> ""]

NotWeighted == [status |-> "none", w |-> [b \in {} |-> 0]]

NoLouvain == [repeat |-> 0, c |-> 0, calls |-> 0, b |-> <<>>, bu |-> <<>>,
              seen |-> {}, hit |-> <<>>, late |-> FALSE]

Network(t) ==
    /\ buses = DOMAIN t
    /\ country = [b \in DOMAIN t |-> GroupKeys[t[b].key][1]]
    /\ sub_network = [b \in DOMAIN t |-> GroupKeys[t[b].key][2]]
    /\ load = [b \in DOMAIN t |-> t[b].load]
    /\ p_nom = [b \in DOMAIN t |-> t[b].p_nom]

----------------------------------------------------------------------------
(* Specification of distribute_clusters called on its own *)

InitAlloc ==
    /\ pc = "distribute_clusters"
    /\ \E t \in BusTables(LoadChoices, {0}) : TopologyOK(t) /\ Network(t)
    /\ n_clusters \in 0..(MaxBuses + 1)
    /\ focus_weights \in FocusChoices
    /\ quadratic \in BOOLEAN
    /\ alloc = NotCalled
    /\ algorithm = "kmeans"
    /\ custom_busmap = FALSE
    /\ custom_file = <<>>
    /\ community_imported = FALSE
    /\ todo = <<>>
    /\ busmap = <<>>
    /\ invoked = {}
    /\ error = NoError
    /\ weight = NotWeighted
    /\ lv = NoLouvain

DistributeClusters ==
    /\ pc = "distribute_clusters"
    /\ \E r \in distribute_clusters :
        /\ alloc' = r
        /\ pc' = IF r.status = "ok" THEN "allocated" ELSE "raised"
        /\ error' = IF r.status = "ok" THEN NoError ELSE [type |-> r.status, text |-> ""]
    /\ UNCHANGED <<inputs, todo, busmap, invoked, weight, lv>>

NextAlloc == DistributeClusters

SpecAlloc == InitAlloc /\ [][NextAlloc]_vars

----------------------------------------------------------------------------
(* Properties of distribute_clusters (under SpecAlloc) *)

\* C1: every budget distribute_clusters returns has one entry per
\* (country, sub_network) group, each entry within 1..|g|, and the entries
\* sum to the requested n_clusters, on either solver path.
C1_BudgetContract ==
    pc = "allocated" =>
        /\ DOMAIN alloc.budget = { <<country[b], sub_network[b]>> : b \in buses }
        /\ \A g \in DOMAIN alloc.budget :
              /\ 1 <= alloc.budget[g]
              /\ alloc.budget[g] <= Cardinality({ b \in buses : <<country[b], sub_network[b]>> = g })
        /\ Sum(alloc.budget) = n_clusters

\* the load shares were adjusted and the assertion on L.sum() was evaluated
ReachedShareCheck == pc # "distribute_clusters" /\ alloc.line \in {210, 226, 228}

FocusTotal == Sum(focus_weights.w)

\* some group of a country the mapping does not name carries positive load
UnnamedLoad ==
    \E b \in buses :
        /\ country[b] \notin DOMAIN focus_weights.w
        /\ load[b] # <<>>
        /\ load[b][1] > 0

\* C4 as stated: for every focus_weights mapping with sum <= 1, naming some
\* or all of the countries present, the adjusted L sums to 1 within 1e-3
\* (the assertion on L.sum() never fails).
C4_FocusSharesSumToOne ==
    (ReachedShareCheck /\ focus_weights.given /\ FocusTotal <= 2)
        => (IsCloseToOne(Sum(alloc.L.num), alloc.L.den) /\ alloc.line # 210)

\* C4 amended: with sum <= 1, the adjusted L sums to 1 within 1e-3 exactly
\* when the weights themselves sum to 1 or a group of an unnamed country
\* carries positive load; otherwise L sums to total_focus and the assertion
\* on L.sum() fails.
C4_FocusSharesSumToOneAmended ==
    (ReachedShareCheck /\ focus_weights.given /\ FocusTotal <= 2)
        => /\ (IsCloseToOne(Sum(alloc.L.num), alloc.L.den) /\ alloc.line # 210)
                <=> (IsCloseToOne(FocusTotal, 2) \/ UnnamedLoad)
           /\ ~(IsCloseToOne(FocusTotal, 2) \/ UnnamedLoad)
                => /\ alloc.line = 210
                   /\ Sum(alloc.L.num) * 2 = FocusTotal * alloc.L.den

\* a partial mapping below 1 over a country split into two loaded groups
C4_Witness ==
    /\ pc = "allocated"
    /\ focus_weights.given
    /\ FocusTotal = 1
    /\ UnnamedLoad
    /\ \E c \in DOMAIN focus_weights.w :
          Cardinality({ sub_network[b] : b \in { x \in buses : country[x] = c /\ load[x] # <<>> } }) = 2
    /\ IsCloseToOne(Sum(alloc.L.num), alloc.L.den)

PreconditionViolated ==
    \/ n_clusters < Cardinality({ <<country[b], sub_network[b]>> : b \in buses })
    \/ n_clusters > Cardinality(buses)
    \/ focus_weights.given /\ FocusTotal > 2

\* C7: when n_clusters is below the number of groups, above the number of
\* buses, or the focus weights sum to more than 1, distribute_clusters
\* raises before the integer program is built or a solver is invoked, and
\* returns no budget.
C7_PreconditionsRejected ==
    (pc # "distribute_clusters" /\ PreconditionViolated)
        => /\ pc = "raised"
           /\ alloc.status = "AssertionError"
           /\ ~alloc.model_built
           /\ alloc.solver = "none"
           /\ alloc.budget = NoBudget

C7_Witness ==
    /\ pc = "raised"
    /\ n_clusters > Cardinality(buses)
    /\ alloc.status = "AssertionError"
    /\ alloc.line = 193

----------------------------------------------------------------------------
(* weighting_for_country *)

Max(S) == CHOOSE m \in S : \A e \in S : e <= m

\* .clip(lower=1.).astype(int)
ClipInt(num, den) == IF num \div den < 1 THEN 1 ELSE num \div den

\* weighting_for_country(n, x) for the buses x: g and l are the normed
\* capacities and loads, w = g + l (over the denominator g.den * l.den).
\* With w.max() = 0 the factor 100. / w.max() is inf, w * inf is NaN, clip
\* keeps NaN and astype(int) raises ValueError on the non-finite values.
weighting_for_country(x) ==
    LET g == normed([b \in x |-> p_nom[b]])
        l == normed([b \in x |-> LoadAt(b)])
        w == [b \in x |-> g.num[b] * l.den + l.num[b] * g.den]
        wmax == Max({ w[b] : b \in x })
    IN  IF wmax = 0
        THEN [status |-> "ValueError", w |-> [b \in {} |-> 0]]
        ELSE [status |-> "ok", w |-> [b \in x |-> ClipInt(w[b] * 100, wmax)]]

----------------------------------------------------------------------------
(* busmap_for_n_clusters *)

\* the algorithms busmap_for_country dispatches on
Algorithms == {"kmeans", "spectral", "hac", "louvain", "newman"}

\* prefix = x.name[0] + x.name[1] + ' '
prefix(g) == g[1] \o g[2] \o " "

RECURSIVE SortedSeq(_)
SortedSeq(S) ==
    IF S = {} THEN <<>>
    ELSE LET lo == CHOOSE e \in S : \A o \in S : e <= o
         IN  <<lo>> \o SortedSeq(S \ {lo})

\* a Series built without index=x.index: a single row
GroupRows_OneRow(g, f) ==
    LET order == SortedSeq(GroupBuses(g))
    IN  << [bus |-> order[1], label |-> prefix(g) \o ToString(f[order[1]])] >>

\* the Series a group returns: one row per bus of x.index
GroupRows(g, f) ==
    LET order == SortedSeq(GroupBuses(g))
    IN  [i \in 1..Len(order) |->
            [bus |-> order[i], label |-> prefix(g) \o ToString(f[order[i]])]]

\* labels 0..k-1 a clustering strategy assigns to the buses x (the
\* strategies are library code); labelings that differ only in the naming of
\* the clusters are listed once, numbered by first appearance
Labelings(x, k) ==
    { f \in [x -> 0..(k - 1)] :
        \A b \in x : f[b] <= Cardinality({ f[o] : o \in { y \in x : y < b } }) }

Mapped(g, f, calls) == [status |-> "ok", text |-> "", rows |-> GroupRows(g, f), calls |-> calls]

Failed(type, text, calls) == [status |-> type, text |-> text, rows |-> <<>>, calls |-> calls]

\* f"`algorithm` must be one of 'kmeans', 'spectral' or 'louvain'. Is {algorithm}."
AlgorithmMessage(a) ==
    "`algorithm` must be one of 'kmeans', 'spectral' or 'louvain'. Is " \o a \o "."

\* lines 349-364: the weighting and the dispatch on `algorithm`
Dispatch(g) ==
    LET x == GroupBuses(g)
        W == weighting_for_country(x)
        weighted == { <<"weighting_for_country", g>> }
        called == weighted \cup { <<"busmap_by_" \o algorithm, g>> }
    IN  IF W.status # "ok"
        THEN { Failed(W.status, "Cannot convert non-finite values (NA or inf) to integer", weighted) }
        ELSE IF algorithm \notin Algorithms
        THEN { Failed("ValueError", AlgorithmMessage(algorithm), weighted) }
        ELSE IF g \notin DOMAIN alloc.budget
        THEN { Failed("KeyError", prefix(g), weighted) }
        ELSE IF algorithm = "louvain" /\ ~community_imported
        THEN { Failed("NameError", "name 'community' is not defined", called) }
        ELSE { Mapped(g, f, called) : f \in Labelings(x, alloc.budget[g]) }

\* busmap_for_country with the weighting computed before the single-bus return
busmap_for_country_WeightFirst(g) ==
    LET x == GroupBuses(g)
        W == weighting_for_country(x)
        weighted == { <<"weighting_for_country", g>> }
    IN  IF Cardinality(x) = 1 /\ W.status = "ok"
        THEN { Mapped(g, [b \in x |-> 0], weighted) }
        ELSE Dispatch(g)

\* every outcome of busmap_for_country(x) for the group x with x.name = g
busmap_for_country(g) ==
    IF Cardinality(GroupBuses(g)) = 1
    THEN { Mapped(g, [b \in GroupBuses(g) |-> 0], {}) }
    ELSE Dispatch(g)

\* the groups in groupby's (sorted) order
SortedGroups == SelectSeq(GroupKeys, LAMBDA k : k \in Groups)

----------------------------------------------------------------------------
(* clustering_for_n_clusters and the calls it makes *)

\* lines 381-387: read the custom busmap, or call busmap_for_n_clusters
ClusteringForNClusters ==
    /\ pc = "clustering_for_n_clusters"
    /\ IF custom_busmap
       THEN /\ busmap' = custom_file
            /\ pc' = "get_clustering_from_busmap"
       ELSE /\ busmap' = busmap
            /\ pc' = "busmap_for_n_clusters"
    /\ UNCHANGED <<inputs, alloc, todo, invoked, error, weight, lv>>

\* lines 231-239: up to the call of distribute_clusters
BusmapForNClusters ==
    /\ pc = "busmap_for_n_clusters"
    /\ pc' = "distribute_clusters"
    /\ UNCHANGED <<inputs, alloc, todo, busmap, invoked, error, weight, lv>>

\* line 366: n.buses.groupby(['country', 'sub_network'], group_keys=False)
GroupByBuses ==
    /\ pc = "allocated"
    /\ pc' = "apply"
    /\ todo' = SortedGroups
    /\ UNCHANGED <<inputs, alloc, busmap, invoked, error, weight, lv>>

\* .apply(busmap_for_country): the next group
BusmapForCountry ==
    /\ pc = "apply"
    /\ todo # <<>>
    /\ \E r \in busmap_for_country(Head(todo)) :
        /\ invoked' = invoked \cup r.calls
        /\ IF r.status = "ok"
           THEN /\ busmap' = busmap \o r.rows
                /\ todo' = Tail(todo)
                /\ pc' = pc
                /\ error' = error
           ELSE /\ busmap' = busmap
                /\ todo' = todo
                /\ pc' = "raised"
                /\ error' = [type |-> r.status, text |-> r.text]
    /\ UNCHANGED <<inputs, alloc, weight, lv>>

\* line 367: .squeeze().rename('busmap'); the result of a one-bus network is
\* squeezed to a scalar, which has no rename
BusmapReturn ==
    /\ pc = "apply"
    /\ todo = <<>>
    /\ IF Cardinality(buses) = 1
       THEN /\ pc' = "raised"
            /\ error' = [type |-> "AttributeError", text |-> "rename"]
       ELSE /\ pc' = "get_clustering_from_busmap"
            /\ error' = error
    /\ UNCHANGED <<inputs, alloc, todo, busmap, invoked, weight, lv>>

\* lines 392-400: the busmap is handed to the network reducer
GetClusteringFromBusmap ==
    /\ pc = "get_clustering_from_busmap"
    /\ pc' = "done"
    /\ UNCHANGED <<inputs, alloc, todo, busmap, invoked, error, weight, lv>>

\* algorithm names tried: the five supported ones and an unsupported one
AlgorithmChoices == Algorithms \cup {"dbscan"}

\* a custom busmap file: rows for some of the buses
CustomFiles(B) ==
    { [i \in 1..Len(SortedSeq(S)) |-> [bus |-> SortedSeq(S)[i], label |-> "c" \o ToString(i % 2)]] :
        S \in (SUBSET B) \ {{}} }

InitCommon ==
    /\ pc = "clustering_for_n_clusters"
    /\ \E t \in BusTables(LoadChoices, {0}) : TopologyOK(t) /\ Network(t)
    /\ n_clusters \in 1..MaxBuses
    /\ focus_weights = NoFocus
    /\ alloc = NotCalled
    /\ todo = <<>>
    /\ busmap = <<>>
    /\ invoked = {}
    /\ error = NoError
    /\ weight = NotWeighted
    /\ lv = NoLouvain

InitGenerated ==
    /\ InitCommon
    /\ custom_busmap = FALSE
    /\ custom_file = <<>>
    /\ algorithm \in AlgorithmChoices
    /\ quadratic \in BOOLEAN
    /\ community_imported \in (IF algorithm = "louvain" THEN BOOLEAN ELSE {FALSE})

InitCustom ==
    /\ InitCommon
    /\ custom_busmap = TRUE
    /\ custom_file \in CustomFiles(buses)
    /\ algorithm = "kmeans"
    /\ quadratic = TRUE
    /\ community_imported = FALSE

Init == InitGenerated \/ InitCustom

Next ==
    \/ ClusteringForNClusters
    \/ BusmapForNClusters
    \/ DistributeClusters
    \/ GroupByBuses
    \/ BusmapForCountry
    \/ BusmapReturn
    \/ GetClusteringFromBusmap

Spec == Init /\ [][Next]_vars

----------------------------------------------------------------------------
(* Properties of the busmap (under Spec) *)

Range(q) == { q[i] : i \in DOMAIN q }

RowsOf(b) == { i \in DOMAIN busmap : busmap[i].bus = b }

Labels == { busmap[i].label : i \in DOMAIN busmap }

BusmapReturned == ~custom_busmap /\ pc \in {"get_clustering_from_busmap", "done"}

\* C2: in a busmap returned by busmap_for_n_clusters every bus id of the
\* network is a key exactly once, and the number of distinct labels is at
\* least 1 and at most the number of buses.
C2_BusmapCoversEveryBusOnce ==
    BusmapReturned =>
        /\ \A b \in buses : Cardinality(RowsOf(b)) = 1
        /\ \A i \in DOMAIN busmap : busmap[i].bus \in buses
        /\ 1 <= Cardinality(Labels)
        /\ Cardinality(Labels) <= Cardinality(buses)

\* several groups, one of them split into two clusters
C2_Witness ==
    /\ BusmapReturned
    /\ pc = "done"
    /\ Cardinality({ <<country[b], sub_network[b]>> : b \in buses }) >= 2
    /\ \E b1, b2 \in buses :
        /\ b1 # b2
        /\ country[b1] = country[b2] /\ sub_network[b1] = sub_network[b2]
        /\ \E i \in RowsOf(b1), j \in RowsOf(b2) : busmap[i].label # busmap[j].label

\* the group has been visited by apply(busmap_for_country)
Visited(g) ==
    /\ ~custom_busmap
    /\ alloc.status = "ok"
    /\ pc \in {"apply", "raised", "get_clustering_from_busmap", "done"}
    /\ g \notin Range(todo)

SingleBusGroups ==
    { g \in { <<country[b], sub_network[b]>> : b \in buses } :
        Cardinality({ b \in buses : <<country[b], sub_network[b]>> = g }) = 1 }

\* C5: whatever the algorithm and the budget, a group of exactly one bus is
\* mapped to the single label prefix + '0', and neither a clustering
\* strategy nor the node weighting is invoked for it.
C5_SingleBusGroupShortCircuits ==
    \A g \in SingleBusGroups :
        Visited(g) =>
            /\ \A b \in buses :
                 <<country[b], sub_network[b]>> = g =>
                    /\ Cardinality(RowsOf(b)) = 1
                    /\ \A i \in RowsOf(b) : busmap[i].label = g[1] \o g[2] \o " 0"
            /\ \A c \in invoked : c[2] # g

\* a single-bus group next to a group that went through a strategy
C5_Witness ==
    /\ pc = "done"
    /\ algorithm = "hac"
    /\ \E g \in SingleBusGroups : Visited(g)
    /\ \E c \in invoked : c[1] = "busmap_by_hac"

\* C6: with an `algorithm` that is none of 'kmeans', 'spectral', 'hac',
\* 'louvain', 'newman', on any network the allocator accepts,
\* busmap_for_n_clusters ends in a fatal error naming the value and returns
\* no busmap.
C6_UnsupportedAlgorithmIsFatal ==
    (/\ ~custom_busmap
     /\ algorithm \notin {"kmeans", "spectral", "hac", "louvain", "newman"}
     /\ alloc.status = "ok")
        => /\ pc \notin {"get_clustering_from_busmap", "done"}
           /\ pc = "raised" =>
                /\ error.type = "ValueError"
                /\ error.text = "`algorithm` must be one of 'kmeans', 'spectral' or 'louvain'. Is "
                                    \o algorithm \o "."

\* C9: with a custom busmap neither the allocator nor a strategy is invoked,
\* and the mapping handed unmodified to the network reducer has been checked
\* to cover every bus id of the network.
C9_CustomBusmapValidated ==
    (custom_busmap /\ pc \in {"get_clustering_from_busmap", "done"})
        => /\ alloc.status = "none"
           /\ invoked = {}
           /\ busmap = custom_file
           /\ \A b \in buses : \E i \in DOMAIN busmap : busmap[i].bus = b

----------------------------------------------------------------------------
(* The label prefix on its own: two buses of different groups of a network *)

\* country codes and sub-network numbers the two groups are drawn from
PrefixCountries == {"A", "A1"}

PrefixSubNetworks == {"0", "1", "10"}

InitLabel ==
    /\ pc = "apply"
    /\ buses = {1, 2}
    /\ country \in [buses -> PrefixCountries]
    /\ sub_network \in [buses -> PrefixSubNetworks]
    /\ <<country[1], sub_network[1]>> # <<country[2], sub_network[2]>>
    /\ todo = << <<country[1], sub_network[1]>>, <<country[2], sub_network[2]>> >>
    /\ load = [b \in buses |-> <<1>>]
    /\ p_nom = [b \in buses |-> 0]
    /\ n_clusters = 2
    /\ focus_weights = NoFocus
    /\ quadratic = TRUE
    /\ alloc = NotCalled
    /\ algorithm = "kmeans"
    /\ custom_busmap = FALSE
    /\ custom_file = <<>>
    /\ community_imported = FALSE
    /\ busmap = <<>>
    /\ invoked = {}
    /\ error = NoError
    /\ weight = NotWeighted
    /\ lv = NoLouvain

\* lines 345-362: prefix + the group-local labels, whatever they are
PrefixLabels ==
    /\ pc = "apply"
    /\ todo # <<>>
    /\ \E f \in [GroupBuses(Head(todo)) -> 0..1] :
        busmap' = busmap \o GroupRows(Head(todo), f)
    /\ todo' = Tail(todo)
    /\ pc' = IF Tail(todo) = <<>> THEN "labelled" ELSE "apply"
    /\ UNCHANGED <<inputs, alloc, invoked, error, weight, lv>>

NextLabel == PrefixLabels

SpecLabel == InitLabel /\ [][NextLabel]_vars

\* C3: buses of different (country, sub_network) groups never share a
\* cluster label, whatever strings the country and sub_network are and
\* whatever the group-local labels: the prefix makes labels globally unique.
C3_PrefixSeparatesGroups ==
    \A i, j \in DOMAIN busmap :
        <<country[busmap[i].bus], sub_network[busmap[i].bus]>>
            # <<country[busmap[j].bus], sub_network[busmap[j].bus]>>
        => busmap[i].label # busmap[j].label

----------------------------------------------------------------------------
(* weighting_for_country on its own: the buses are the subset x *)

\* loads and conventional capacities a bus of the subset may carry
WeightLoads == { <<>>, <<0>>, <<1>>, <<3>> }

WeightCapacities == {0, 1, 2}

InitWeight ==
    /\ pc = "weighting_for_country"
    /\ \E k \in 1..MaxBuses :
        /\ buses = 1..k
        /\ load \in [1..k -> WeightLoads]
        /\ p_nom \in [1..k -> WeightCapacities]
        /\ country = [b \in 1..k |-> "A"]
        /\ sub_network = [b \in 1..k |-> "0"]
    /\ n_clusters = 1
    /\ focus_weights = NoFocus
    /\ quadratic = TRUE
    /\ alloc = NotCalled
    /\ algorithm = "kmeans"
    /\ custom_busmap = FALSE
    /\ custom_file = <<>>
    /\ community_imported = FALSE
    /\ todo = <<>>
    /\ busmap = <<>>
    /\ invoked = {}
    /\ error = NoError
    /\ weight = NotWeighted
    /\ lv = NoLouvain

WeightingForCountry ==
    /\ pc = "weighting_for_country"
    /\ weight' = weighting_for_country(buses)
    /\ pc' = IF weight'.status = "ok" THEN "weighted" ELSE "raised"
    /\ error' = IF weight'.status = "ok" THEN NoError
                ELSE [type |-> weight'.status,
                      text |-> "Cannot convert non-finite values (NA or inf) to integer"]
    /\ UNCHANGED <<inputs, alloc, todo, busmap, invoked, lv>>

NextWeight == WeightingForCountry

SpecWeight == InitWeight /\ [][NextWeight]_vars

\* C8: weighting_for_country is total: for every non-empty subset of buses
\* with non-negative capacities and loads (zero totals included) it returns
\* an integer weight between 1 and 100 for every bus, never NaN, never an
\* error.
C8_WeightingTotal ==
    pc # "weighting_for_country" =>
        /\ pc = "weighted"
        /\ weight.status = "ok"
        /\ DOMAIN weight.w = buses
        /\ \A b \in buses : 1 <= weight.w[b] /\ weight.w[b] <= 100

----------------------------------------------------------------------------
(* busmap_by_louvain, step by step *)

\* largest group handed to busmap_by_louvain
MaxLouvainBuses == 3

\* for repeat in range(0,3)
Repeats == 3

\* while (...) & (c < 500)
MaxAttempts == 500

\* len(pd.Series(b).unique())
Communities(b) == Cardinality({ b[i] : i \in DOMAIN b })

\* what community.best_partition(G, resolution=res) may return for the nodes
\* of G: any partition, its communities numbered by first appearance.  The
\* resolution only steers the library routine and is not tracked.
best_partition == Labelings(buses, Cardinality(buses))

\* the loop condition with <= in place of <
KeepSearching_OffByOne(b, c) == Communities(b) # n_clusters /\ c <= MaxAttempts

\* (len(pd.Series(b).unique()) != n_clusters) & (c < 500)
KeepSearching(b, c) == Communities(b) # n_clusters /\ c < MaxAttempts

Deviation(b) == Abs(Communities(b) - n_clusters)

\* one call b = community.best_partition(G, resolution=res) that returned p,
\* entered in the record of the call of busmap_by_louvain: seen is the set of
\* deviations of all partitions returned so far, hit holds the first partition
\* returned with exactly n_clusters communities, late says that the routine
\* was called again after such a partition had been returned
Called(l, p) ==
    [l EXCEPT !.seen = l.seen \cup {Deviation(p)},
              !.hit = IF l.hit = <<>> /\ Communities(p) = n_clusters THEN <<p>> ELSE l.hit,
              !.late = l.late \/ l.hit # <<>>]

InitLouvain ==
    /\ pc = "louvain_repeat"
    /\ \E k \in 2..MaxLouvainBuses :
        /\ buses = 1..k
        /\ country = [b \in 1..k |-> "A"]
        /\ sub_network = [b \in 1..k |-> "0"]
        /\ load = [b \in 1..k |-> <<1>>]
        /\ p_nom = [b \in 1..k |-> 0]
        /\ n_clusters \in 1..k
    /\ community_imported \in BOOLEAN
    /\ focus_weights = NoFocus
    /\ quadratic = TRUE
    /\ alloc = NotCalled
    /\ algorithm = "louvain"
    /\ custom_busmap = FALSE
    /\ custom_file = <<>>
    /\ todo = <<>>
    /\ busmap = <<>>
    /\ invoked = {}
    /\ error = NoError
    /\ weight = NotWeighted
    /\ lv = NoLouvain

\* lines 294-300: a repeat starts with c = 1 and a first partition
LouvainStartRepeat ==
    /\ pc = "louvain_repeat"
    /\ lv.repeat < Repeats
    /\ IF ~community_imported
       THEN /\ pc' = "raised"
            /\ error' = [type |-> "NameError", text |-> "name 'community' is not defined"]
            /\ lv' = lv
       ELSE /\ \E p \in best_partition :
                lv' = Called([lv EXCEPT !.c = 1, !.calls = 1, !.b = p, !.bu = p], p)
            /\ pc' = "louvain_while"
            /\ error' = error
    /\ UNCHANGED <<inputs, alloc, todo, busmap, invoked, weight>>

\* lines 301-316: one pass through the body of the while loop
LouvainAttempt ==
    /\ pc = "louvain_while"
    /\ KeepSearching(lv.b, lv.c)
    /\ LET below == Communities(lv.b) < n_clusters IN
       \E b1 \in (IF below THEN best_partition ELSE {lv.b}) :
       LET above == Communities(b1) > n_clusters IN
       \E b2 \in (IF above THEN best_partition ELSE {b1}) :
       LET bu2 == IF Deviation(b2) <= Deviation(lv.bu) THEN b2 ELSE lv.bu
           l1 == IF below THEN Called(lv, b1) ELSE lv
           l2 == IF above THEN Called(l1, b2) ELSE l1 IN
            /\ lv' = [l2 EXCEPT !.c = lv.c + 1,
                                !.calls = (IF below THEN 1 ELSE 0) + (IF above THEN 1 ELSE 0),
                                !.b = b2, !.bu = bu2]
            /\ pc' = IF Communities(bu2) = n_clusters THEN "louvain_collect" ELSE "louvain_while"
    /\ UNCHANGED <<inputs, alloc, todo, busmap, invoked, error, weight>>

\* line 301: the loop condition is false
LouvainLoopExit ==
    /\ pc = "louvain_while"
    /\ ~KeepSearching(lv.b, lv.c)
    /\ pc' = "louvain_collect"
    /\ UNCHANGED <<inputs, alloc, todo, busmap, invoked, error, weight, lv>>

\* lines 318-320: list_cluster is rebuilt from bu, then the next repeat
LouvainCollect ==
    /\ pc = "louvain_collect"
    /\ busmap' = [i \in 1..Len(SortedSeq(buses)) |->
                    [bus |-> SortedSeq(buses)[i], label |-> ToString(lv.bu[SortedSeq(buses)[i]])]]
    /\ lv' = [lv EXCEPT !.repeat = lv.repeat + 1, !.calls = 0]
    /\ pc' = "louvain_repeat"
    /\ UNCHANGED <<inputs, alloc, todo, invoked, error, weight>>

\* line 322: return pd.Series(list_cluster, index=...)
LouvainReturn ==
    /\ pc = "louvain_repeat"
    /\ lv.repeat >= Repeats
    /\ pc' = "louvain_returned"
    /\ UNCHANGED <<inputs, alloc, todo, busmap, invoked, error, weight, lv>>

NextLouvain ==
    \/ LouvainStartRepeat
    \/ LouvainAttempt
    \/ LouvainLoopExit
    \/ LouvainCollect
    \/ LouvainReturn

SpecLouvain == InitLouvain /\ [][NextLouvain]_vars

\* C10: busmap_by_louvain terminates with a bounded number of partitioning
\* calls: it runs at most 3 repeats, in each repeat the attempt counter c
\* stays within 1..500, and one attempt makes at most 2 calls; once c is 500
\* the search loop can only be left.
C10_LouvainBounded ==
    pc \in {"louvain_while", "louvain_collect", "louvain_repeat", "louvain_returned"} =>
        /\ lv.repeat <= 3
        /\ lv.c <= 500
        /\ lv.calls <= 2
        /\ (pc = "louvain_while" => lv.repeat < 3 /\ lv.c >= 1)
        /\ (pc = "louvain_while" /\ lv.c = 500) => (~ENABLED LouvainAttempt /\ ENABLED LouvainLoopExit)

\* the ceiling is reached without the target ever being hit
C10_Witness ==
    /\ pc = "louvain_while"
    /\ lv.repeat = 2
    /\ lv.c = 500
    /\ Cardinality({ lv.b[i] : i \in DOMAIN lv.b }) # n_clusters
    /\ Cardinality({ lv.bu[i] : i \in DOMAIN lv.bu }) # n_clusters

\* the call of busmap_by_louvain has returned its series of labels
LouvainReturned == pc = "louvain_returned"

\* |number of communities - n_clusters| of the returned series
ReturnedDeviation == Abs(Cardinality(Labels) - n_clusters)

====
